---- MODULE Spec2Model ----
(***************************************************************************)
(* Model of gqlparse (src/gqlparse.go): the decoded introspection schema,  *)
(* the recursive type-string rendering and wrapper stripping, the          *)
(* operation synthesis, the type lookup and the control flow of main.      *)
(*                                                                         *)
(* Conventions.  A Go pointer is a sequence of length 0 (nil) or 1 (the    *)
(* pointee).  A Go slice of fields is a record [nil, elems] because the    *)
(* lookup distinguishes a nil slice from an empty one.  A Go string is a   *)
(* TLA+ string and concatenation is \o.  A function that can panic on a    *)
(* nil dereference returns [panic, val].                                   *)
(***************************************************************************)
EXTENDS Integers, Sequences, FiniteSets, TLC

VARIABLES
    argv,       \* command line: [i: schema file path, m: -m given, other: a flag main does not define]
    file,       \* the input file: [readable, content, schema]
    pc,         \* position of main
    schema,     \* introspection.Data.Schema after json.Unmarshal
    rootType,   \* the *FullType the current loop ranges over
    idx,        \* index of the next field of the current loop
    stdout,     \* lines printed by fmt.Println
    logged,     \* messages printed by the log package, in order
    exitCode,   \* process exit status, -1 while running
    fileRead,   \* ioutil.ReadFile has been called
    call,       \* a direct call of one function: its name and arguments
    ret,        \* that call's outcome
    frames      \* call stack of a stepwise recursion over a TypeRef

vars == <<argv, file, pc, schema, rootType, idx, stdout, logged, exitCode,
          fileRead, call, ret, frames>>

(***************************************************************************)
(* Bounds of the model.                                                    *)
(***************************************************************************)
MaxDepth == 3    \* wrappers around a type reference
MaxArgs == 2     \* arguments of a field given to generateOperation
MaxTypes == 2    \* entries of a schema's type list

(***************************************************************************)
(* Data model (src/gqlparse.go:21-78).                                     *)
(***************************************************************************)
Nil == <<>>

Ptr(x) == <<x>>

Deref(p) == p[1]

WrapperKinds == {"NON_NULL", "LIST"}

CompositeKinds == {"OBJECT", "INTERFACE", "UNION"}

LeafKinds == {"SCALAR", "ENUM", "INPUT_OBJECT"} \cup CompositeKinds

TypeRef(kind, name, ofType) == [kind |-> kind, name |-> name, ofType |-> ofType]

Named(kind, n) == TypeRef(kind, Ptr(n), Nil)

NonNull(t) == TypeRef("NON_NULL", Nil, Ptr(t))

List(t) == TypeRef("LIST", Nil, Ptr(t))

InputValue(name, type) == [name |-> name, type |-> type]

Field(name, args, type) == [name |-> name, args |-> args, type |-> type]

NilFields == [nil |-> TRUE, elems |-> <<>>]

Fields(elems) == [nil |-> FALSE, elems |-> elems]

FullType(name, fields) == [name |-> name, fields |-> fields]

NamedTypeRef(name) == [name |-> name]

Schema(queryType, mutationType, types) ==
    [queryType |-> queryType, mutationType |-> mutationType, types |-> types]

\* The zero value of Schema: what json.Unmarshal leaves when the document
\* has no data.__schema member.
ZeroSchema == Schema(NamedTypeRef(""), Nil, <<>>)

Returned(v) == [panic |-> FALSE, val |-> v]

Panicked == [panic |-> TRUE, val |-> ""]

(***************************************************************************)
(* getTypeString (src/gqlparse.go:81-94).                                  *)
(***************************************************************************)
nonNullString_prefixed(inner) == "!" \o inner

\* line 85: getTypeString(*t.OfType) + "!"
nonNullString(inner) == inner \o "!"

\* line 87: "[" + getTypeString(*t.OfType) + "]"
listString(inner) == "[" \o inner \o "]"

\* lines 89-92: the name, or "" when the name pointer is nil
leafString(t) == IF t.name # Nil THEN Deref(t.name) ELSE ""

derefOfType_nilAsLeaf(t) == Returned(TypeRef("SCALAR", Nil, Nil))

\* *t.OfType: a nil pointer dereference panics
derefOfType(t) == IF t.ofType = Nil THEN Panicked ELSE Returned(Deref(t.ofType))

RECURSIVE getTypeString(_)
getTypeString(t) ==
    IF t.kind \in WrapperKinds
    THEN LET inner == derefOfType(t) IN
         IF inner.panic THEN Panicked
         ELSE LET s == getTypeString(inner.val) IN
              IF s.panic THEN Panicked
              ELSE IF t.kind = "NON_NULL"
                   THEN Returned(nonNullString(s.val))
                   ELSE Returned(listString(s.val))
    ELSE Returned(leafString(t))

(***************************************************************************)
(* unwrap and isComposite (src/gqlparse.go:97-108).                        *)
(***************************************************************************)
RECURSIVE unwrap(_)
unwrap(t) ==
    IF t.kind = "NON_NULL" \/ t.kind = "LIST"
    THEN LET inner == derefOfType(t) IN
         IF inner.panic THEN Panicked ELSE unwrap(inner.val)
    ELSE Returned(t)

compositeKind_objectOnly(kind) == kind = "OBJECT"

\* line 107
compositeKind(kind) == kind = "OBJECT" \/ kind = "INTERFACE" \/ kind = "UNION"

isComposite(t) ==
    LET inner == unwrap(t) IN
    IF inner.panic THEN Panicked ELSE Returned(compositeKind(inner.val.kind))

(***************************************************************************)
(* generateOperation (src/gqlparse.go:111-147).                            *)
(***************************************************************************)
\* strings.Join(elems, sep)
RECURSIVE Join(_, _)
Join(elems, sep) ==
    IF elems = <<>> THEN ""
    ELSE IF Len(elems) = 1 THEN elems[1]
    ELSE elems[1] \o sep \o Join(Tail(elems), sep)

\* line 117: fmt.Sprintf("$%s: %s", arg.Name, getTypeString(arg.Type))
varDef(arg, typeString) == "$" \o arg.name \o ": " \o typeString

\* line 120: fmt.Sprintf("%s: $%s", arg.Name, arg.Name)
argAssignment(arg) == arg.name \o ": $" \o arg.name

\* lines 116-122: the loop over f.Args, from argument i on; it panics at the
\* first argument whose type string cannot be rendered.
RECURSIVE argLoop(_, _, _, _)
argLoop(args, i, varDefs, argAssignments) ==
    IF i > Len(args)
    THEN Returned([varDefs |-> varDefs, argAssignments |-> argAssignments])
    ELSE LET s == getTypeString(args[i].type) IN
         IF s.panic THEN Panicked
         ELSE argLoop(args, i + 1,
                      Append(varDefs, varDef(args[i], s.val)),
                      Append(argAssignments, argAssignment(args[i])))

opHeader_always(opType, name, varDefs) ==
    opType \o " " \o name \o "(" \o Join(varDefs, ", ") \o ")"

\* lines 125-130
opHeader(opType, name, varDefs) ==
    IF Len(varDefs) > 0
    THEN opType \o " " \o name \o "(" \o Join(varDefs, ", ") \o ")"
    ELSE opType

\* lines 133-136
opCall(name, argAssignments) ==
    IF Len(argAssignments) > 0
    THEN name \o "(" \o Join(argAssignments, ", ") \o ")"
    ELSE name

\* lines 139-142
opSelection(composite) == IF composite THEN " { __typename }" ELSE ""

generateOperation(f, opType) ==
    LET loop == argLoop(f.args, 1, <<>>, <<>>) IN
    IF loop.panic THEN Panicked
    ELSE LET header == opHeader(opType, f.name, loop.val.varDefs)
             callStr == opCall(f.name, loop.val.argAssignments)
             composite == isComposite(f.type)
         IN  IF composite.panic THEN Panicked
             ELSE Returned(header \o " { " \o callStr
                           \o opSelection(composite.val) \o " }")

(***************************************************************************)
(* findTypeByName (src/gqlparse.go:150-157).                               *)
(***************************************************************************)
typeMatches_nameOnly(t, name) == t.name = name

typeMatches_nonEmpty(t, name) == t.name = name /\ Len(t.fields.elems) > 0

\* line 152: t.Name == name && t.Fields != nil
typeMatches(t, name) == t.name = name /\ ~t.fields.nil

RECURSIVE findFrom(_, _, _)
findFrom(types, name, i) ==
    IF i > Len(types) THEN Nil
    ELSE IF typeMatches(types[i], name) THEN Ptr(types[i])
    ELSE findFrom(types, name, i + 1)

findTypeByName(types, name) == findFrom(types, name, 1)

(***************************************************************************)
(* Inputs: the values a decoded introspection document can hold.           *)
(* json.Unmarshal builds finite trees, so a wrapper chain either ends at a *)
(* named leaf or at a wrapper whose ofType is nil (absent or null).        *)
(***************************************************************************)
RECURSIVE TypeRefsOver(_, _)
TypeRefsOver(names, depth) ==
    LET ends == {TypeRef(k, n, Nil) : k \in LeafKinds, n \in names}
                  \cup {TypeRef(k, Nil, Nil) : k \in WrapperKinds}
    IN  IF depth = 0 THEN ends
        ELSE ends \cup {TypeRef(k, Nil, Ptr(t)) :
                          k \in WrapperKinds, t \in TypeRefsOver(names, depth - 1)}

\* arguments of direct getTypeString / unwrap calls
RenderInputs == TypeRefsOver({Nil, Ptr("String"), Ptr("ID")}, MaxDepth)

\* return types of the fields given to direct generateOperation calls
ReturnTypes == TypeRefsOver({Ptr("User")}, MaxDepth - 1)

ArgTypes == {NonNull(Named("SCALAR", "ID")),
             NonNull(List(NonNull(Named("SCALAR", "String")))),
             TypeRef("LIST", Nil, Nil)}

SeqsUpTo(S, n) == UNION {[1..k -> S] : k \in 0..n}

ArgLists == SeqsUpTo({InputValue(n, t) : n \in {"id", "first"}, t \in ArgTypes}, MaxArgs)

OperationInputs ==
    {Field(n, a, t) : n \in {"ping", "user"}, a \in ArgLists, t \in ReturnTypes}

\* the fields of the schemas given to main
pingField == Field("ping", <<>>, Named("SCALAR", "String"))

userField ==
    Field("user", <<InputValue("id", NonNull(Named("SCALAR", "ID")))>>,
          Named("OBJECT", "User"))

colorsField == Field("colors", <<>>, List(NonNull(Named("ENUM", "Color"))))

danglingField == Field("broken", <<>>, TypeRef("NON_NULL", Nil, Nil))

FieldLists == {NilFields, Fields(<<>>), Fields(<<pingField>>),
               Fields(<<userField, colorsField>>),
               Fields(<<colorsField, userField, pingField>>),
               Fields(<<pingField, danglingField, userField>>)}

TypeNames == {"Query", "Mutation"}

FullTypes == {FullType(n, fl) : n \in TypeNames, fl \in FieldLists}

TypeLists == SeqsUpTo(FullTypes, MaxTypes)

Schemas ==
    {Schema(NamedTypeRef("Query"), mt, ts) :
        mt \in {Nil, Ptr(NamedTypeRef("Mutation")), Ptr(NamedTypeRef("Query"))},
        ts \in TypeLists}

Files ==
    {[readable |-> FALSE, content |-> "none", schema |-> ZeroSchema],
     [readable |-> TRUE, content |-> "undecodable", schema |-> ZeroSchema],
     [readable |-> TRUE, content |-> "noSchema", schema |-> ZeroSchema]}
    \cup {[readable |-> TRUE, content |-> "schema", schema |-> s] : s \in Schemas}

Argvs == [i : {"", "schema.json"}, m : BOOLEAN, other : BOOLEAN]

(***************************************************************************)
(* main (src/gqlparse.go:159-227), one action per statement group.         *)
(***************************************************************************)
NoCall == [fn |-> "main"]

Init ==
    /\ argv \in Argvs
    /\ file \in Files
    /\ pc = "flags"
    /\ schema = ZeroSchema
    /\ rootType = Nil
    /\ idx = 0
    /\ stdout = <<>>
    /\ logged = <<>>
    /\ exitCode = -1
    /\ fileRead = FALSE
    /\ call = NoCall
    /\ ret = Nil
    /\ frames = <<>>

\* os.Exit(code) after printing msg to the error stream
Exit(code, msg) ==
    /\ pc' = "exit"
    /\ exitCode' = code
    /\ logged' = Append(logged, msg)

\* lines 204-207: fmt.Println(op); fmt.Println()
printOperation_blankFirst(out, op) == out \o <<"", op>>

printOperation(out, op) == out \o <<op, "">>

\* lines 170-178.  main defines the flags -i and -m only; flag.Parse ends
\* the process with status 2 on any other flag.
ParseFlags ==
    /\ pc = "flags"
    /\ IF argv.other
       THEN Exit(2, "flag provided but not defined")
       ELSE IF argv.i = ""
            THEN Exit(1, "usage")
            ELSE pc' = "read" /\ UNCHANGED <<exitCode, logged>>
    /\ UNCHANGED <<argv, file, schema, rootType, idx, stdout, fileRead, call, ret, frames>>

\* lines 181-184
ReadFile ==
    /\ pc = "read"
    /\ fileRead' = TRUE
    /\ IF ~file.readable
       THEN Exit(1, "Error reading file")
       ELSE pc' = "decode" /\ UNCHANGED <<exitCode, logged>>
    /\ UNCHANGED <<argv, file, schema, rootType, idx, stdout, call, ret, frames>>

decodeFails_withoutSchema(content) == content # "schema"

\* line 188: json.Unmarshal returns an error on text that is not JSON or does
\* not fit the struct; a member the document lacks is no error.
decodeFails(content) == content = "undecodable"

\* lines 187-193; a member the document lacks keeps its zero value.
Unmarshal ==
    /\ pc = "decode"
    /\ IF decodeFails(file.content)
       THEN Exit(1, "Error parsing JSON") /\ UNCHANGED schema
       ELSE /\ schema' = IF file.content = "noSchema" THEN ZeroSchema ELSE file.schema
            /\ pc' = "queryLookup"
            /\ UNCHANGED <<exitCode, logged>>
    /\ UNCHANGED <<argv, file, rootType, idx, stdout, fileRead, call, ret, frames>>

\* lines 196-200
LookupQueryType ==
    /\ pc = "queryLookup"
    /\ LET queryType == findTypeByName(schema.types, schema.queryType.name) IN
       IF queryType = Nil
       THEN Exit(1, "Could not find query type") /\ UNCHANGED <<rootType, idx>>
       ELSE /\ rootType' = queryType
            /\ idx' = 1
            /\ pc' = "queryLoop"
            /\ UNCHANGED <<exitCode, logged>>
    /\ UNCHANGED <<argv, file, schema, stdout, fileRead, call, ret, frames>>

\* one iteration of a loop over rootType.Fields (lines 203-208, 220-224);
\* a panic inside generateOperation ends the process with status 2.
PrintField(opType) ==
    /\ idx <= Len(Deref(rootType).fields.elems)
    /\ LET op == generateOperation(Deref(rootType).fields.elems[idx], opType) IN
       IF op.panic
       THEN Exit(2, "panic: nil pointer dereference") /\ UNCHANGED <<stdout, idx>>
       ELSE /\ stdout' = printOperation(stdout, op.val)
            /\ idx' = idx + 1
            /\ UNCHANGED <<pc, exitCode, logged>>
    /\ UNCHANGED <<argv, file, schema, rootType, fileRead, call, ret, frames>>

PrintQuery == pc = "queryLoop" /\ PrintField("query")

NoMutationsNotice_fatal == Exit(1, "No mutations defined in the schema.")

\* line 213: log.Println, after which main runs off its end
NoMutationsNotice ==
    /\ logged' = Append(logged, "No mutations defined in the schema.")
    /\ pc' = "exit"
    /\ exitCode' = 0

\* lines 211-219, reached when the query loop is over
CheckMutations ==
    /\ pc = "queryLoop"
    /\ idx > Len(Deref(rootType).fields.elems)
    /\ IF ~argv.m
       THEN pc' = "exit" /\ exitCode' = 0 /\ UNCHANGED <<logged, rootType, idx>>
       ELSE IF schema.mutationType = Nil
            THEN NoMutationsNotice /\ UNCHANGED <<rootType, idx>>
            ELSE LET mutationType ==
                         findTypeByName(schema.types, Deref(schema.mutationType).name)
                 IN  IF mutationType = Nil
                     THEN Exit(1, "Could not find mutation type")
                          /\ UNCHANGED <<rootType, idx>>
                     ELSE /\ rootType' = mutationType
                          /\ idx' = 1
                          /\ pc' = "mutationLoop"
                          /\ UNCHANGED <<exitCode, logged>>
    /\ UNCHANGED <<argv, file, schema, stdout, fileRead, call, ret, frames>>

PrintMutation == pc = "mutationLoop" /\ PrintField("mutation")

\* line 227: main returns when the mutation loop is over
Return ==
    /\ pc = "mutationLoop"
    /\ idx > Len(Deref(rootType).fields.elems)
    /\ pc' = "exit"
    /\ exitCode' = 0
    /\ UNCHANGED <<argv, file, schema, rootType, idx, stdout, logged, fileRead,
                   call, ret, frames>>

Next ==
    \/ ParseFlags
    \/ ReadFile
    \/ Unmarshal
    \/ LookupQueryType
    \/ PrintQuery
    \/ CheckMutations
    \/ PrintMutation
    \/ Return

Spec == Init /\ [][Next]_vars

(***************************************************************************)
(* Direct calls of the functions, on inputs drawn from bounded sets.       *)
(***************************************************************************)
MainIdle ==
    /\ argv = [i |-> "", m |-> FALSE, other |-> FALSE]
    /\ file = [readable |-> FALSE, content |-> "none", schema |-> ZeroSchema]
    /\ pc = "exit"
    /\ schema = ZeroSchema
    /\ rootType = Nil
    /\ idx = 0
    /\ stdout = <<>>
    /\ logged = <<>>
    /\ exitCode = -1
    /\ fileRead = FALSE

mainVars == <<argv, file, pc, schema, rootType, idx, stdout, logged, exitCode, fileRead>>

InitCalls ==
    /\ MainIdle
    /\ ret = Nil
    /\ frames = <<>>
    /\ \/ call \in [fn : {"getTypeString", "isComposite"}, t : RenderInputs]
       \/ call \in [fn : {"generateOperation"}, f : OperationInputs,
                    opType : {"query", "mutation"}]
       \/ call \in [fn : {"findTypeByName"}, types : TypeLists,
                    name : TypeNames \cup {"Subscription"}]

CallGetTypeString ==
    /\ call.fn = "getTypeString"
    /\ ret = Nil
    /\ ret' = Ptr(getTypeString(call.t))
    /\ UNCHANGED <<mainVars, call, frames>>

CallIsComposite ==
    /\ call.fn = "isComposite"
    /\ ret = Nil
    /\ ret' = Ptr(isComposite(call.t))
    /\ UNCHANGED <<mainVars, call, frames>>

CallGenerateOperation ==
    /\ call.fn = "generateOperation"
    /\ ret = Nil
    /\ ret' = Ptr(generateOperation(call.f, call.opType))
    /\ UNCHANGED <<mainVars, call, frames>>

CallFindTypeByName ==
    /\ call.fn = "findTypeByName"
    /\ ret = Nil
    /\ ret' = Ptr(Returned(findTypeByName(call.types, call.name)))
    /\ UNCHANGED <<mainVars, call, frames>>

NextCalls ==
    \/ CallGetTypeString
    \/ CallIsComposite
    \/ CallGenerateOperation
    \/ CallFindTypeByName

SpecCalls == InitCalls /\ [][NextCalls]_vars

(***************************************************************************)
(* Reference definitions used by the properties.  They are written from    *)
(* the shape of the input, not from the code's recursion.                  *)
(***************************************************************************)
\* the node a wrapper chain ends at
RECURSIVE ChainEnd(_)
ChainEnd(t) ==
    IF t.kind \in WrapperKinds /\ t.ofType # Nil THEN ChainEnd(Deref(t.ofType)) ELSE t

\* the wrapper kinds of a chain, outermost first
RECURSIVE ChainKinds(_)
ChainKinds(t) ==
    IF t.kind \in WrapperKinds /\ t.ofType # Nil
    THEN <<t.kind>> \o ChainKinds(Deref(t.ofType))
    ELSE <<>>

EndsAtLeaf(t) == ChainEnd(t).kind \notin WrapperKinds

Dangling(t) == ~EndsAtLeaf(t)

\* one "[" per LIST wrapper
RECURSIVE Openers(_)
Openers(kinds) ==
    IF kinds = <<>> THEN ""
    ELSE (IF Head(kinds) = "LIST" THEN "[" ELSE "") \o Openers(Tail(kinds))

\* "]" per LIST and "!" per NON_NULL, innermost wrapper first
RECURSIVE Closers(_)
Closers(kinds) ==
    IF kinds = <<>> THEN ""
    ELSE Closers(Tail(kinds)) \o (IF Head(kinds) = "LIST" THEN "]" ELSE "!")

ReferenceRendering(t) ==
    LET leaf == ChainEnd(t) IN
    Openers(ChainKinds(t))
        \o (IF leaf.name = Nil THEN "" ELSE Deref(leaf.name))
        \o Closers(ChainKinds(t))

WellFormedField(f) ==
    /\ EndsAtLeaf(f.type)
    /\ \A i \in 1..Len(f.args) : EndsAtLeaf(f.args[i].type)

RECURSIVE Declarations(_, _)
Declarations(args, n) ==
    LET d == "$" \o args[n].name \o ": " \o ReferenceRendering(args[n].type) IN
    IF n = 1 THEN d ELSE Declarations(args, n - 1) \o ", " \o d

RECURSIVE Bindings(_, _)
Bindings(args, n) ==
    LET b == args[n].name \o ": $" \o args[n].name IN
    IF n = 1 THEN b ELSE Bindings(args, n - 1) \o ", " \o b

\* "<header> { <call>" of the operation for field f
OperationHead(f, kind) ==
    LET n == Len(f.args) IN
    IF n = 0
    THEN kind \o " { " \o f.name
    ELSE kind \o " " \o f.name \o "(" \o Declarations(f.args, n) \o ") { "
         \o f.name \o "(" \o Bindings(f.args, n) \o ")"

Returns(fn) == call.fn = fn /\ ret # Nil

Result == Deref(ret)

StringListExample == NonNull(List(NonNull(Named("SCALAR", "String"))))

Least(S) == CHOOSE i \in S : \A j \in S : i <= j

FirstWhere(types, P(_)) ==
    LET hits == {i \in 1..Len(types) : P(types[i])} IN
    IF hits = {} THEN Nil ELSE Ptr(types[Least(hits)])

(***************************************************************************)
(* C1: for every TypeRef whose wrapper chain ends at a leaf, getTypeString *)
(* returns the reference rendering ("[" per LIST, the leaf's name or "",   *)
(* then "]" / "!" per wrapper from the innermost out); in particular       *)
(* NON_NULL(LIST(NON_NULL(SCALAR String))) renders as "[String!]!".        *)
(***************************************************************************)
C1_RenderingMatchesReference ==
    /\ (Returns("getTypeString") /\ EndsAtLeaf(call.t))
         => (~Result.panic /\ Result.val = ReferenceRendering(call.t))
    /\ Returns("getTypeString") => getTypeString(StringListExample) = Returned("[String!]!")

C1_Witness ==
    /\ Returns("getTypeString")
    /\ call.t = StringListExample
    /\ Result = Returned("[String!]!")

(***************************************************************************)
(* C2: for a field whose types end at leaves, generateOperation returns    *)
(* "<header> { <call><suffix> }": with no arguments the header is the kind *)
(* keyword and the call is the field name; with n >= 1 arguments the       *)
(* header is "<kind> <name>(<n declarations>)" and the call is             *)
(* "<name>(<n bindings>)", both comma-joined in declared order.            *)
(***************************************************************************)
C2_OperationShape ==
    /\ (Returns("generateOperation") /\ WellFormedField(call.f))
         => /\ ~Result.panic
            /\ \E suffix \in {"", " { __typename }"} :
                   Result.val = OperationHead(call.f, call.opType) \o suffix \o " }"
    /\ Returns("generateOperation")
         => /\ generateOperation(pingField, "query") = Returned("query { ping }")
            /\ generateOperation(userField, "query")
                 = Returned("query user($id: ID!) { user(id: $id) { __typename } }")

C2_Witness ==
    /\ Returns("generateOperation")
    /\ call.f = userField
    /\ call.opType = "query"
    /\ Result = Returned("query user($id: ID!) { user(id: $id) { __typename } }")

(***************************************************************************)
(* C3: the operation ends with the selection " { __typename }" exactly     *)
(* when the return type's chain ends at an OBJECT, INTERFACE or UNION      *)
(* leaf; for SCALAR, ENUM and INPUT_OBJECT leaves, however deeply wrapped, *)
(* the suffix is empty.                                                    *)
(***************************************************************************)
C3_SelectionIffComposite ==
    /\ (Returns("generateOperation") /\ WellFormedField(call.f))
         => Result.val = OperationHead(call.f, call.opType)
                \o (IF ChainEnd(call.f.type).kind \in CompositeKinds
                    THEN " { __typename }" ELSE "")
                \o " }"
    /\ (Returns("isComposite") /\ EndsAtLeaf(call.t))
         => Result = Returned(ChainEnd(call.t).kind \in CompositeKinds)
    /\ Returns("isComposite")
         => generateOperation(colorsField, "query") = Returned("query { colors }")

C3_Witness ==
    /\ Returns("generateOperation")
    /\ call.f = Field("ping", <<>>, List(NonNull(Named("ENUM", "User"))))
    /\ Result = Returned(call.opType \o " { ping }")

(***************************************************************************)
(* C4 as stated: findTypeByName returns the first entry whose name matches *)
(* and whose fields list is non-empty, skipping entries of that name whose *)
(* fields list is absent or empty.                                         *)
(***************************************************************************)
C4_FirstNonEmptyMatch ==
    Returns("findTypeByName") =>
        LET NonEmpty(t) == t.name = call.name /\ Len(t.fields.elems) > 0
        IN  Result.val = FirstWhere(call.types, NonEmpty)

(***************************************************************************)
(* C4 amended: findTypeByName returns the first entry whose name matches   *)
(* and whose fields list is present (not nil); a present but empty list    *)
(* matches, an absent one is skipped, and with no such entry the result is *)
(* nil.                                                                    *)
(***************************************************************************)
C4_FirstPresentMatch ==
    Returns("findTypeByName") =>
        LET Present(t) == t.name = call.name /\ ~t.fields.nil
        IN  Result.val = FirstWhere(call.types, Present)

C4_Witness ==
    /\ Returns("findTypeByName")
    /\ call.name = "Query"
    /\ call.types = <<FullType("Query", NilFields), FullType("Query", Fields(<<>>))>>
    /\ Result.val = Ptr(FullType("Query", Fields(<<>>)))

(***************************************************************************)
(* Stepwise recursion of getTypeString and unwrap: one action per call,    *)
(* per return and per nil dereference.  frames holds the TypeRef of every  *)
(* active invocation, the outermost first; ret holds the value the last    *)
(* finished invocation returned, or the panic.                             *)
(***************************************************************************)
InitSteps ==
    /\ MainIdle
    /\ call \in [fn : {"getTypeString", "unwrap"}, t : RenderInputs]
    /\ frames = <<call.t>>
    /\ ret = Nil

Top == frames[Len(frames)]

Pop == SubSeq(frames, 1, Len(frames) - 1)

\* lines 85, 87, 99: the recursive call on *t.OfType
Recurse ==
    /\ ret = Nil
    /\ frames # <<>>
    /\ Top.kind \in WrapperKinds
    /\ ~derefOfType(Top).panic
    /\ frames' = Append(frames, derefOfType(Top).val)
    /\ UNCHANGED <<mainVars, call, ret>>

\* lines 85, 87, 99: *t.OfType with a nil OfType
NilDereference ==
    /\ ret = Nil
    /\ frames # <<>>
    /\ Top.kind \in WrapperKinds
    /\ derefOfType(Top).panic
    /\ ret' = Ptr(Panicked)
    /\ UNCHANGED <<mainVars, call, frames>>

\* lines 88-93, 101: the innermost invocation returns
ReturnLeaf ==
    /\ ret = Nil
    /\ frames # <<>>
    /\ Top.kind \notin WrapperKinds
    /\ ret' = Ptr(Returned(IF call.fn = "getTypeString" THEN leafString(Top) ELSE Top))
    /\ frames' = Pop
    /\ UNCHANGED <<mainVars, call>>

\* lines 85, 87, 99: an invocation returns what its callee returned, wrapped
ReturnWrapped ==
    /\ ret # Nil
    /\ ~Deref(ret).panic
    /\ frames # <<>>
    /\ ret' = Ptr(Returned(IF call.fn = "unwrap" THEN Deref(ret).val
                           ELSE IF Top.kind = "NON_NULL"
                                THEN nonNullString(Deref(ret).val)
                                ELSE listString(Deref(ret).val)))
    /\ frames' = Pop
    /\ UNCHANGED <<mainVars, call>>

NextSteps ==
    \/ Recurse
    \/ NilDereference
    \/ ReturnLeaf
    \/ ReturnWrapped

SpecSteps == InitSteps /\ [][NextSteps]_vars

\* the stepwise recursion ends with the value the operators compute
StepsAgree ==
    (ret # Nil /\ (frames = <<>> \/ Deref(ret).panic))
        => Deref(ret) = (IF call.fn = "getTypeString"
                         THEN getTypeString(call.t) ELSE unwrap(call.t))

(***************************************************************************)
(* Reference definitions for the runs of main.                             *)
(***************************************************************************)
Exited == pc = "exit"

LastLogged == IF logged = <<>> THEN "" ELSE logged[Len(logged)]

\* the entry a root name designates: the first one of that name with a
\* fields list that is present
RootOf(name) ==
    LET Present(t) == t.name = name /\ ~t.fields.nil
    IN  FirstWhere(schema.types, Present)

EntriesNamed(name) == {i \in 1..Len(schema.types) : schema.types[i].name = name}

\* the lines printed for a root: each field's operation, then a blank line
LinesOf(root, kind) ==
    IF root = Nil THEN <<>>
    ELSE LET fs == Deref(root).fields.elems IN
         [i \in 1..(2 * Len(fs)) |->
             IF i % 2 = 1 THEN generateOperation(fs[(i + 1) \div 2], kind).val ELSE ""]

Renderable(root, kind) ==
    /\ root # Nil
    /\ \A i \in 1..Len(Deref(root).fields.elems) :
           ~generateOperation(Deref(root).fields.elems[i], kind).panic

QueryRoot == RootOf(schema.queryType.name)

MutationRoot ==
    IF schema.mutationType = Nil THEN Nil ELSE RootOf(Deref(schema.mutationType).name)

QueryLines == LinesOf(QueryRoot, "query")

MutationLines == LinesOf(MutationRoot, "mutation")

\* the run got through the query root: it was found and every field rendered
PastQueries == Exited /\ Renderable(QueryRoot, "query")

MutationsRequested == argv.m /\ schema.mutationType # Nil

IsPrefix(a, b) == Len(a) <= Len(b) /\ a = SubSeq(b, 1, Len(a))

DecodedWithoutSchema == Exited /\ fileRead /\ file.readable /\ file.content = "noSchema"

ExpectedOutput ==
    QueryLines \o (IF MutationsRequested THEN MutationLines ELSE <<>>)

(***************************************************************************)
(* C5 as stated: when mutations are requested, a mutation root name is     *)
(* declared and the run gets to the mutations, the run ends in the fatal   *)
(* "mutation type not found" error whenever every entry of that name has   *)
(* an empty or absent fields list.                                         *)
(***************************************************************************)
C5_FatalWhenEmptyOrAbsent ==
    (PastQueries /\ MutationsRequested
       /\ \A i \in EntriesNamed(Deref(schema.mutationType).name) :
              Len(schema.types[i].fields.elems) = 0)
      => (exitCode = 1 /\ LastLogged = "Could not find mutation type"
          /\ stdout = QueryLines)

(***************************************************************************)
(* C5 amended: when mutations are requested, a mutation root name is       *)
(* declared and the run gets to the mutations, the run ends in the fatal   *)
(* "mutation type not found" error (status 1, no mutation operation        *)
(* printed) whenever every entry of that name has an absent fields list;   *)
(* when the first entry of that name with a present list has an empty one, *)
(* the run succeeds and prints no mutation operation.  That fatal error    *)
(* occurs only when mutations were requested and a mutation root is        *)
(* declared; with the flag off the mutation root is never looked up.       *)
(***************************************************************************)
C5_FatalWhenAbsent ==
    /\ (PastQueries /\ MutationsRequested)
         => /\ (\A i \in EntriesNamed(Deref(schema.mutationType).name) :
                    schema.types[i].fields.nil)
                 => (exitCode = 1 /\ LastLogged = "Could not find mutation type"
                     /\ stdout = QueryLines)
            /\ (MutationRoot # Nil /\ Deref(MutationRoot).fields.elems = <<>>)
                 => (exitCode = 0 /\ logged = <<>> /\ stdout = QueryLines)
    /\ LastLogged = "Could not find mutation type"
         => (MutationsRequested /\ MutationRoot = Nil /\ exitCode = 1)
    /\ ~argv.m => pc # "mutationLoop"

C5_Witness ==
    /\ PastQueries
    /\ MutationsRequested
    /\ EntriesNamed("Mutation") # {}
    /\ \A i \in EntriesNamed("Mutation") : schema.types[i].fields.nil
    /\ LastLogged = "Could not find mutation type"
    /\ stdout # <<>>

(***************************************************************************)
(* C6: when mutations are requested on a schema with no mutation root and  *)
(* the run gets through the query root, the run ends with status 0 after   *)
(* the notice, having printed one query operation per field of the query   *)
(* root and no mutation operation; the missing mutation root is never a    *)
(* fatal error.                                                            *)
(***************************************************************************)
C6_NoMutationRootIsNotFatal ==
    /\ (PastQueries /\ argv.m /\ schema.mutationType = Nil)
         => /\ exitCode = 0
            /\ logged = <<"No mutations defined in the schema.">>
            /\ stdout = QueryLines
            /\ Len(stdout) = 2 * Len(Deref(QueryRoot).fields.elems)
    /\ (argv.m /\ schema.mutationType = Nil)
         => (pc # "mutationLoop" /\ LastLogged # "Could not find mutation type")

C6_Witness ==
    /\ PastQueries
    /\ argv.m
    /\ schema.mutationType = Nil
    /\ logged = <<"No mutations defined in the schema.">>
    /\ Len(stdout) = 6

(***************************************************************************)
(* C7 as stated: a document that is valid JSON but has no data.__schema    *)
(* fails in the decode step, with a non-zero status and nothing printed.   *)
(***************************************************************************)
C7_MissingSchemaIsDecodeError ==
    DecodedWithoutSchema
      => (LastLogged = "Error parsing JSON" /\ exitCode # 0 /\ stdout = <<>>)

(***************************************************************************)
(* C7 amended: a document that is valid JSON but has no data.__schema      *)
(* decodes without error to the zero schema; the run then fails at the     *)
(* query root lookup ("Could not find query type"), with status 1 and      *)
(* nothing printed.  Whenever decoding fails, nothing is ever printed.     *)
(***************************************************************************)
C7_MissingSchemaFailsAtLookup ==
    /\ DecodedWithoutSchema
         => (logged = <<"Could not find query type">> /\ exitCode = 1 /\ stdout = <<>>)
    /\ (pc = "queryLookup" /\ file.content = "noSchema") => schema = ZeroSchema
    /\ LastLogged = "Error parsing JSON"
         => (Exited /\ exitCode = 1 /\ stdout = <<>> /\ file.content = "undecodable")

C7_Witness ==
    /\ DecodedWithoutSchema
    /\ LastLogged = "Could not find query type"

(***************************************************************************)
(* C8: what has been printed is always a prefix of the query root's        *)
(* operations in declared order followed, when mutations are requested and *)
(* the mutation root is found, by the mutation root's operations in        *)
(* declared order; a run that ends with status 0 has printed exactly that  *)
(* sequence; and nothing is printed when the query root is not found.      *)
(***************************************************************************)
C8_OutputInDeclaredOrder ==
    /\ IsPrefix(stdout, ExpectedOutput)
    /\ (Exited /\ exitCode = 0) => stdout = ExpectedOutput
    /\ pc = "mutationLoop" => IsPrefix(QueryLines, stdout)
    /\ QueryRoot = Nil => stdout = <<>>

C8_Witness ==
    /\ Exited
    /\ exitCode = 0
    /\ Len(QueryLines) = 6
    /\ Len(MutationLines) = 4
    /\ stdout = QueryLines \o MutationLines

(***************************************************************************)
(* C9: when the alternate mode flag is given, the program prints the fixed *)
(* introspection query and exits with status 0 without reading any file.   *)
(* main defines no such flag: to it the flag is one it does not define.    *)
(***************************************************************************)
C9_AlternateModeSucceeds ==
    (Exited /\ argv.other) => (exitCode = 0 /\ stdout # <<>> /\ ~fileRead)

(***************************************************************************)
(* C10 as stated: on a wrapper chain that ends at a wrapper with no ofType *)
(* the recursion of getTypeString and unwrap never stops, by any outcome.  *)
(***************************************************************************)
C10_DanglingChainNeverStops ==
    Dangling(call.t) => (ret = Nil /\ ENABLED NextSteps)

(***************************************************************************)
(* C10 amended: on a wrapper chain that ends at a wrapper with no ofType   *)
(* the recursion of getTypeString and unwrap is bounded by the length of   *)
(* the chain: it makes one call per wrapper and then stops in a nil        *)
(* dereference panic; it returns no value and handles no error.            *)
(***************************************************************************)
C10_DanglingChainPanics ==
    Dangling(call.t)
      => /\ Len(frames) <= Len(ChainKinds(call.t)) + 1
         /\ ret # Nil => (Deref(ret) = Panicked /\ ChainEnd(Top) = Top)
         /\ ret = Nil => (frames # <<>> /\ ENABLED NextSteps)
         /\ getTypeString(call.t).panic
         /\ unwrap(call.t).panic

C10_Witness ==
    /\ Dangling(call.t)
    /\ Len(ChainKinds(call.t)) = 2
    /\ ret = Ptr(Panicked)
    /\ Len(frames) = 3

====
